---- MODULE Spec2Model ----
(***************************************************************************)
(* Model of the motorized X-Y stage controller: Scanner (src/Scan.py), the *)
(* serial link (src/Serial_Interface.py) and the button handlers of        *)
(* ScanApp (src/MotorizedStageApp.py).                                     *)
(*                                                                         *)
(* The program is single threaded.  A handler runs from the Tk main loop;  *)
(* while Scanner.move_axis refreshes the heatmap (update_heatmap calls     *)
(* canvas.flush_events) pending button events are processed.  The call     *)
(* stack is the sequence `stack`, active frame first.                      *)
(***************************************************************************)
EXTENDS Integers, Sequences, FiniteSets, TLC

\* ------------------------------------------------------------------ bounds
GridSize == 3      \* side of the measurement grid (workspace_size, scaled down)
MaxExt == 1        \* largest extension entered
MaxStep == 2       \* largest stepsize entered
MaxFaults == 1     \* ADC reads that miss or return an odd value, per session
MaxJogs == 1       \* jog buttons pressed, per session of the application
MaxRuns == 2       \* presses of Start, per session with re-entrant handlers

\* ------------------------------------------------------- values and inputs
NaN == << >>                       \* np.nan: the "no data" cell
None == << >>                      \* Python None
Some(v) == << v >>

Abs(n) == IF n < 0 THEN -n ELSE n

Cells == 0 .. GridSize - 1
Exts == 0 .. MaxExt
Steps == 1 .. MaxStep
Centers == {<<1, 1>>, <<0, 2>>, <<1, 2>>}
Reach == -1 .. GridSize            \* coordinates a jog may lead to

\* A line of device output, as the words it is made of.
BlankLine == << >>
OkLine == <<"OK">>                     \* "OK"
NoiseLine == <<"zz">>                  \* "zz"
AdcLine == <<"ADC:", "7">>            \* "ADC: 7"
OddLine == <<"ADC:", "-", "8">>       \* "ADC: -8"
Lines == {BlankLine, OkLine, NoiseLine, AdcLine, OddLine}

DigitVal(w) == CASE w = "7" -> 7 [] w = "8" -> 8 [] OTHER -> 0
IsNumber(w) == w \in {"7", "8"}

\* variant: every line that is not blank counts as the acknowledgement
HasAck_AnyLine(line) == TRUE

\* `self.ack_text in line`
HasAck(line) == \E k \in DOMAIN line : line[k] = "OK"

\* ADC_RE.search(line): the first "ADC:" followed by an optional sign and digits
AdcMatches(line) ==
    {k \in DOMAIN line :
        /\ line[k] = "ADC:"
        /\ \/ k + 1 \in DOMAIN line /\ IsNumber(line[k + 1])
           \/ /\ k + 2 \in DOMAIN line
              /\ line[k + 1] \in {"+", "-"}
              /\ IsNumber(line[k + 2])}

Min(S) == CHOOSE m \in S : \A n \in S : m <= n

\* int(match.group(1)), or None when the line does not match
AdcParse(line) ==
    IF AdcMatches(line) = {} THEN None
    ELSE LET k == Min(AdcMatches(line))
         IN  IF IsNumber(line[k + 1]) THEN Some(DigitVal(line[k + 1]))
             ELSE IF line[k + 1] = "-" THEN Some(-DigitVal(line[k + 2]))
             ELSE Some(DigitVal(line[k + 2]))

\* ------------------------------------------------------------ pure helpers
\* math.floor(a / b) for a >= 0 and b # 0
FloorDiv(a, b) ==
    IF b > 0 THEN a \div b ELSE -((a + (-b) - 1) \div (-b))

\* math.floor((2*extension)/stepsize) + 1
NumPoints(ext, step) == FloorDiv(2 * ext, step) + 1

\* math.floor(stepsize / 2)
half_step(step) == step \div 2

\* variant: the bounds test without the lower limits
InGrid_UpperOnly(yy, xx) == yy < GridSize /\ xx < GridSize

\* the bounds test of a grid write
InGrid(yy, xx) == (0 <= yy /\ yy < GridSize) /\ (0 <= xx /\ xx < GridSize)

\* the cells the block loops visit around (x, y)
BlockCells(x, y, step) ==
    {c \in ((y - half_step(step)) .. (y + half_step(step)))
           \X ((x - half_step(step)) .. (x + half_step(step))) : InGrid(c[1], c[2])}

\* variant: a miss clears the whole block around (x, y)
SampleCells_MissBlock(x, y, val, step) == BlockCells(x, y, step)

\* the cells a sample taken at (x, y) is stored in: c = <<row, column>>
SampleCells(x, y, val, step) ==
    IF val # None THEN BlockCells(x, y, step)
    ELSE IF InGrid(y, x) THEN {<<y, x>>} ELSE {}

\* the element an index k addresses along one axis of the array: a negative
\* index counts from the end
NumpyIndex(k) == IF k < 0 THEN k + GridSize ELSE k

\* `self.data[yy, xx] = ...` raises IndexError for an index outside
\* -GridSize .. GridSize-1; the bounds test lets no such index through
Raises(x, y, val, step) ==
    \E c \in SampleCells(x, y, val, step) :
       NumpyIndex(c[1]) \notin Cells \/ NumpyIndex(c[2]) \notin Cells

\* variant: the sample is stored at data[x, y], row and column exchanged
StoreSample_Transposed(d, x, y, val, step) ==
    [yy \in Cells |-> [xx \in Cells |->
        IF \E c \in SampleCells(x, y, val, step) :
              NumpyIndex(c[1]) = xx /\ NumpyIndex(c[2]) = yy
        THEN (IF val # None THEN val ELSE NaN)
        ELSE d[yy][xx]]]

\* the grid after the sample val (None: a miss) taken at (x, y) is stored
StoreSample(d, x, y, val, step) ==
    [yy \in Cells |-> [xx \in Cells |->
        IF \E c \in SampleCells(x, y, val, step) :
              NumpyIndex(c[1]) = yy /\ NumpyIndex(c[2]) = xx
        THEN (IF val # None THEN val ELSE NaN)
        ELSE d[yy][xx]]]

\* cmd = f"{axis}{sign}{abs(steps)}"
MoveCmd(axis, steps) ==
    [kind |-> "move", axis |-> axis,
     sign |-> IF steps > 0 THEN "+" ELSE "-", mag |-> Abs(steps)]

PlainCmd(text) == [kind |-> text, axis |-> "-", sign |-> "+", mag |-> 0]

\* the displacement the device performs for a move command
CmdDelta(cmd, axis) ==
    IF cmd.kind = "move" /\ cmd.axis = axis
    THEN (IF cmd.sign = "+" THEN cmd.mag ELSE -cmd.mag)
    ELSE 0

\* `if i < math.floor((2*extension)/stepsize) + 1` guarding the y-step
YStepDue(i, ext, step) == i < NumPoints(ext, step)

\* ------------------------------------------------------------------- state
VARIABLES
    open,        \* SerialConnection.is_open()
    rx,          \* lines waiting in the serial input buffer
    xPos, yPos,  \* Scanner.xPos, Scanner.yPos
    center,      \* Scanner.center
    extension,   \* Scanner.extension
    stepsize,    \* Scanner.stepsize
    abort,       \* Scanner.abort
    data,        \* the measurement grid, data[row][column]
    stack,       \* call stack of handlers, active frame first
    reckoned,    \* the initial position plus the displacements of the move
                 \* commands acknowledged so far
    runs, jogs, faults,  \* counters that bound the session
    dev,         \* the device at the other end of the link
    closing      \* the window is destroyed and the SystemExit of on_closing
                 \* is kept until the main loop has control

vars == <<open, rx, xPos, yPos, center, extension, stepsize, abort, data,
          stack, reckoned, runs, jogs, faults, dev, closing>>


\* ------------------------------------------------------------- call frames
MoveSites == {"home_cx", "home_cy", "home_fx", "home_fy",
              "xstep", "rowback", "ystep", "ret_x", "ret_y", "jog"}

\* np.full((workspace_size, workspace_size), np.nan)
EmptyGrid == [yy \in Cells |-> [xx \in Cells |-> NaN]]

\* a grid that earlier scans have filled
OldGrid == [yy \in Cells |-> [xx \in Cells |-> Some(-8)]]

\* A frame of run_scan (op "scan") or of scanner_move (op "jog").  pc is the
\* call site reached, st the step within it: "call" (about to execute it),
\* "ack" (inside wait_for_ack), "adc" (inside wait_for_adc_value), "flush"
\* (inside update_heatmap), "end" (returning).  The fields after cmd record
\* what the run has done so far.
NewFrame(op) ==
    [op |-> op, pc |-> "entry", st |-> "call",
     i |-> 0, j |-> -1, rows |-> 0, cols |-> 0,     \* loop variables
     dx |-> 0, dy |-> 0,                            \* locals of run_scan
     axis |-> "x", steps |-> 0,                     \* arguments of move_axis
     cmd |-> PlainCmd("none"),                      \* last command sent
     d0 |-> data,                                   \* the grid at entry
     c0 |-> center, e0 |-> extension,               \* parameters at entry
     cfg |-> 0,                                     \* settings acknowledged
     nMove |-> 0, nRead |-> 0, nX |-> 0, nY |-> 0,  \* commands sent, by kind
     nSent |-> 0,                                   \* commands sent, in all
     unawaited |-> 0,                               \* sent, no wait returned
     nAck |-> 0,                                    \* wait_for_ack gave True
     on |-> FALSE, off |-> FALSE,                   \* adc on / adc off sent
     samples |-> << >>,                             \* positions sampled
     nMiss |-> 0,                                   \* samples that missed
     vals |-> {},                                   \* values the samples had
     dirty |-> FALSE,                               \* grid written, not drawn
     lost |-> FALSE,                                \* a wait_for_ack failed
     stale |-> abort /\ runs > 0,                    \* flag left set earlier
     how |-> "-"]                                   \* why the run ended

Top == Head(stack)
Idle == stack = << >>
\* the active frame is a run
InRun == ~Idle /\ Top.op = "scan"
SetTop(f) == <<f>> \o Tail(stack)

\* the stack once the SystemExit of sys.exit(0) has ended the program:
\* nothing runs any more
ExitFrame == [NewFrame("exit") EXCEPT !.st = "exit"]
Exited == ~Idle /\ Top.op = "exit"

Goto(f, site) == [f EXCEPT !.pc = site, !.st = "call"]
End(f, why) == [f EXCEPT !.st = "end", !.how = why]
Send(f, site, text) ==
    [f EXCEPT !.pc = site, !.st = "ack", !.cmd = PlainCmd(text),
              !.nSent = f.nSent + 1, !.unawaited = f.unawaited + 1]

\* `self.serial.send_command("adc off")`, then the return moves
AfterLoops(f) ==
    [Goto(f, "ret_x") EXCEPT !.cmd = PlainCmd("adc off"), !.off = TRUE,
                             !.nSent = f.nSent + 1,
                             !.unawaited = f.unawaited + 1]

\* `for j in range(...)`: the inner range is evaluated when a row begins
StartRow(f) ==
    LET c == NumPoints(extension, stepsize)
    IN  IF c > 0 THEN [Goto(f, "col") EXCEPT !.cols = c, !.j = 0]
        ELSE [Goto(f, "rowback") EXCEPT !.cols = c]

\* the outer loop advances, or ends
NextRow(f) ==
    IF f.i + 1 < f.rows THEN StartRow([f EXCEPT !.i = f.i + 1])
    ELSE AfterLoops(f)

\* `for i in range(...)`: the outer range is evaluated once; the division
\* raises ZeroDivisionError for stepsize 0, which ends the handler
EnterLoops(f) ==
    LET r == NumPoints(extension, stepsize)
    IN  IF stepsize = 0 THEN End(f, "raise")
        ELSE IF r > 0 THEN StartRow([f EXCEPT !.rows = r, !.i = 0])
        ELSE AfterLoops([f EXCEPT !.rows = r])

\* the inner loop advances, or the row ends
NextColumn(f) ==
    IF f.j + 1 < f.cols THEN [Goto(f, "col") EXCEPT !.j = f.j + 1]
    ELSE Goto(f, "rowback")

\* after the row-back move: the y-step, if its guard holds
AfterRowBack(f) ==
    IF YStepDue(f.i, extension, stepsize) THEN Goto(f, "ystep") ELSE NextRow(f)

\* variant: the scan begins after the x move to the first corner, the y move
\* left out
MoveOk_NoCornerY(f) ==
    CASE f.pc = "home_cx" -> Goto(f, "home_cy")
      [] f.pc = "home_cy" -> [Goto(f, "home_fx") EXCEPT !.dx = 0, !.dy = 0]
      [] f.pc = "home_fx" -> [Send(f, "adcon", "adc on") EXCEPT !.on = TRUE]
      [] f.pc = "home_fy" -> [Send(f, "adcon", "adc on") EXCEPT !.on = TRUE]
      [] f.pc = "xstep"   -> NextColumn(f)
      [] f.pc = "rowback" -> AfterRowBack(f)
      [] f.pc = "ystep"   -> NextRow(f)
      [] f.pc = "ret_x"   -> Goto(f, "ret_y")
      [] f.pc = "ret_y"   -> End(f, "done")
      [] f.pc = "jog"     -> [f EXCEPT !.pc = "jog_wait", !.st = "ack"]

\* what the caller does when move_axis returned True
MoveOk(f) ==
    CASE f.pc = "home_cx" -> Goto(f, "home_cy")
      [] f.pc = "home_cy" -> [Goto(f, "home_fx") EXCEPT !.dx = 0, !.dy = 0]
      [] f.pc = "home_fx" -> Goto(f, "home_fy")
      [] f.pc = "home_fy" -> [Send(f, "adcon", "adc on") EXCEPT !.on = TRUE]
      [] f.pc = "xstep"   -> NextColumn(f)
      [] f.pc = "rowback" -> AfterRowBack(f)
      [] f.pc = "ystep"   -> NextRow(f)
      [] f.pc = "ret_x"   -> Goto(f, "ret_y")
      [] f.pc = "ret_y"   -> End(f, "done")
      [] f.pc = "jog"     -> [f EXCEPT !.pc = "jog_wait", !.st = "ack"]

\* variant: a return move that is not acknowledged ends the run like any
\* other move
MoveFailed_Fatal(f) ==
    CASE f.pc = "jog"   -> [f EXCEPT !.pc = "jog_wait", !.st = "ack"]
      [] OTHER          -> End(f, "move")

\* what the caller does when move_axis returned False
MoveFailed(f) ==
    CASE f.pc = "ret_x" -> Goto(f, "ret_y")
      [] f.pc = "ret_y" -> End(f, "done")
      [] f.pc = "jog"   -> [f EXCEPT !.pc = "jog_wait", !.st = "ack"]
      [] OTHER          -> End(f, "move")

\* variant: the row-back move is one column short, -stepsize * j
MoveArgs_ShortRowBack(f) ==
    CASE f.pc = "home_cx" -> <<"x", f.dx>>
      [] f.pc = "home_cy" -> <<"y", f.dy>>
      [] f.pc = "home_fx" -> <<"x", -extension>>
      [] f.pc = "home_fy" -> <<"y", -extension>>
      [] f.pc = "xstep"   -> <<"x", stepsize>>
      [] f.pc = "rowback" -> <<"x", (-stepsize) * f.j>>
      [] f.pc = "ystep"   -> <<"y", stepsize>>
      [] f.pc = "ret_x"   -> <<"x", center[1] - xPos>>
      [] f.pc = "ret_y"   -> <<"y", center[2] - yPos>>
      [] f.pc = "jog"     -> <<f.axis, f.steps>>

\* variant: the return undoes the homing offset and the raster height rather
\* than the distance to center
MoveArgs_FixedReturn(f) ==
    CASE f.pc = "home_cx" -> <<"x", f.dx>>
      [] f.pc = "home_cy" -> <<"y", f.dy>>
      [] f.pc = "home_fx" -> <<"x", -extension>>
      [] f.pc = "home_fy" -> <<"y", -extension>>
      [] f.pc = "xstep"   -> <<"x", stepsize>>
      [] f.pc = "rowback" -> <<"x", (-stepsize) * (f.j + 1)>>
      [] f.pc = "ystep"   -> <<"y", stepsize>>
      [] f.pc = "ret_x"   -> <<"x", extension>>
      [] f.pc = "ret_y"   -> <<"y", -extension>>
      [] f.pc = "jog"     -> <<f.axis, f.steps>>

\* the arguments of the move_axis call at call site f.pc
MoveArgs(f) ==
    CASE f.pc = "home_cx" -> <<"x", f.dx>>
      [] f.pc = "home_cy" -> <<"y", f.dy>>
      [] f.pc = "home_fx" -> <<"x", -extension>>
      [] f.pc = "home_fy" -> <<"y", -extension>>
      [] f.pc = "xstep"   -> <<"x", stepsize>>
      [] f.pc = "rowback" -> <<"x", (-stepsize) * (f.j + 1)>>
      [] f.pc = "ystep"   -> <<"y", stepsize>>
      [] f.pc = "ret_x"   -> <<"x", center[1] - xPos>>
      [] f.pc = "ret_y"   -> <<"y", center[2] - yPos>>
      [] f.pc = "jog"     -> <<f.axis, f.steps>>

\* what the caller does when wait_for_ack after a setting returned True
AckOk(f) ==
    CASE f.pc = "speed" -> [Send(f, "tau", "set tau") EXCEPT !.cfg = 1]
      [] f.pc = "tau"   -> [Goto(f, "home_cx") EXCEPT !.cfg = 2,
                               !.dx = center[1] - xPos, !.dy = center[2] - yPos]
      [] f.pc = "adcon" -> EnterLoops(f)
      [] f.pc = "jog_wait" -> End(f, "jog")

\* variant: the test of extension is left out
run_scan_AnyExtension(f) ==
    IF ~open THEN End(f, "closed")
    ELSE Send(f, "speed", "set speed")

\* variant: a missing acknowledgement of a setting is ignored
AckFailed_Ignored(f) ==
    CASE f.pc = "speed" -> [Send(f, "tau", "set tau") EXCEPT !.cfg = 1]
      [] f.pc = "tau"   -> [Goto(f, "home_cx") EXCEPT !.cfg = 2,
                               !.dx = center[1] - xPos, !.dy = center[2] - yPos]
      [] f.pc = "adcon" -> End(f, "adcon")
      [] f.pc = "jog_wait" -> End(f, "jog")

\* what the caller does when wait_for_ack after a setting returned False
AckFailed(f) ==
    CASE f.pc = "speed" -> End(f, "cfg")
      [] f.pc = "tau"   -> End(f, "cfg")
      [] f.pc = "adcon" -> End(f, "adcon")
      [] f.pc = "jog_wait" -> End(f, "jog")

\* A step that takes the handler from f to g uses the link when it sends a
\* command or enters a wait.  On a link that is not open `self.ser.write`
\* and `self.ser.readline` raise, and the exception ends the handler.
OnLink(f, g) ==
    IF ~open /\ (g.nSent > f.nSent \/ (g.st = "ack" /\ f.st # "ack"))
    THEN End(f, "io")
    ELSE g

\* run_scan up to its first wait: the two entry checks, then `set speed`
run_scan(f) ==
    IF extension <= 0 THEN End(f, "ext")
    ELSE IF ~open THEN End(f, "closed")
    ELSE Send(f, "speed", "set speed")


\* `self.xPos += steps` or `self.yPos += steps`
Moved(pos, axis, steps) ==
    IF axis = "x" THEN <<pos[1] + steps, pos[2]>> ELSE <<pos[1], pos[2] + steps>>

\* variant: the position is updated before the acknowledgement is awaited
AfterAck_Eager(pos, axis, steps, ok) == Moved(pos, axis, steps)

\* the position after wait_for_ack returned ok inside move_axis
AfterAck(pos, axis, steps, ok) ==
    IF ok THEN Moved(pos, axis, steps) ELSE pos

\* the record of a run to which one more command of call site `site` is added
Counted(f, site) ==
    [f EXCEPT !.nMove = f.nMove + 1,
              !.nSent = f.nSent + 1, !.unawaited = f.unawaited + 1,
              !.nX = IF site = "xstep" THEN f.nX + 1 ELSE f.nX,
              !.nY = IF site = "ystep" THEN f.nY + 1 ELSE f.nY]

\* The device as the program's sends leave it.  A device in mode "any" may
\* write any line at any time and lets at most MaxFaults reads miss or return
\* an odd value; one in mode "lossy" does the same and may let any number of
\* reads miss; one in mode "ok" follows the protocol and owes one response to
\* each command it has received, in order.  s and t are the
\* call stack before and after a step; a step sends at most one command,
\* the last command of the frame then active.
Heard(s, t) ==
    IF /\ dev.mode = "ok"
       /\ t # << >>
       /\ Len(t) >= Len(s)
       /\ Head(t).nSent > (IF Len(t) = Len(s) THEN Head(s).nSent ELSE 0)
    THEN [dev EXCEPT !.owed = Append(@, Head(t).cmd.kind)]
    ELSE dev

\* ------------------------------------------------------------------ actions
\* The application between two handlers, the link not yet opened: the
\* parameters as entered, the stage where jogs and earlier runs left it, the
\* grid empty or filled by earlier scans.
Init ==
    /\ open = FALSE
    /\ rx = << >>
    /\ center \in Centers
    /\ extension \in Exts
    /\ stepsize \in Steps
    /\ xPos \in Reach
    /\ yPos \in Reach
    /\ abort = FALSE
    /\ data \in {EmptyGrid, OldGrid}
    /\ stack = << >>
    /\ reckoned = <<xPos, yPos>>
    /\ runs = 0
    /\ jogs = 0
    /\ faults = 0
    /\ dev = [mode |-> "any", owed |-> << >>]
    /\ closing = FALSE

\* ScanApp.__init__: the grid is empty and _create_scanner places the stage
\* at the center entered
InitApp ==
    /\ Init
    /\ data = EmptyGrid
    /\ xPos = center[1]
    /\ yPos = center[2]

\* ScanApp._connect_serial, from the main loop or while a heatmap refresh
\* processes pending events: set_port (which closes an open link and opens
\* it again), then open.  The port opens and open resets the buffers, or
\* serial.Serial raises and the link is left closed, or no port is selected
\* and nothing is done.
connect_serial ==
    /\ ~closing
    /\ IF Idle THEN TRUE ELSE Top.st = "flush"
    /\ \/ open' = TRUE /\ rx' = << >>
       \/ open' = FALSE /\ rx' = rx
       \/ open' = open /\ rx' = rx
    /\ UNCHANGED <<xPos, yPos, center, extension, stepsize, abort, data, stack,
                   reckoned, runs, jogs, faults>>
    /\ UNCHANGED dev
    /\ UNCHANGED closing

\* ScanApp.start_scan with the link closed: rejected
start_scan_closed ==
    /\ ~closing
    /\ Idle
    /\ ~open
    /\ UNCHANGED vars

\* variant: Start leaves the abort flag as it finds it
Cleared_Kept(flag) == flag

\* `if self.scanner.abort: self.scanner.abort = False`: the flag after it
Cleared(flag) == IF flag THEN FALSE ELSE flag

\* ScanApp.on_closing, from the main loop or while a heatmap refresh
\* processes pending events: the link is closed and the window destroyed.
\* From the main loop sys.exit(0) ends the program.  Inside a refresh the
\* SystemExit is kept until the main loop has control: flush_events returns
\* and the handlers on the stack run on, the link closed.
on_closing ==
    /\ ~closing
    /\ IF Idle THEN TRUE ELSE Top.st = "flush"
    /\ open' = FALSE
    /\ closing' = TRUE
    /\ stack' = IF Idle THEN <<ExitFrame>> ELSE stack
    /\ UNCHANGED <<rx, xPos, yPos, center, extension, stepsize, abort, data,
                   reckoned, runs, jogs, faults>>
    /\ UNCHANGED dev

\* the handlers have returned to the main loop, which raises the SystemExit
\* it kept: the program ends
mainloop_exit ==
    /\ closing
    /\ Idle
    /\ stack' = <<ExitFrame>>
    /\ UNCHANGED <<open, rx, xPos, yPos, center, extension, stepsize, abort,
                   data, reckoned, runs, jogs, faults>>
    /\ UNCHANGED dev
    /\ UNCHANGED closing

\* ScanApp.start_scan, the link open: clears the abort flag and enters
\* run_scan
PressStart ==
    /\ ~closing
    /\ open
    /\ runs' = runs + 1
    /\ abort' = Cleared(abort)
    /\ stack' = <<NewFrame("scan")>> \o stack
    /\ UNCHANGED <<open, rx, xPos, yPos, center, extension, stepsize, data,
                   reckoned, jogs, faults>>
    /\ dev' = Heard(stack, stack')
    /\ UNCHANGED closing

\* Scanner.run_scan is entered: the two entry checks, then `set speed`
run_scan_entry ==
    /\ InRun
    /\ Top.pc = "entry"
    /\ Top.st = "call"
    /\ stack' = SetTop(run_scan(Top))
    /\ UNCHANGED <<open, rx, xPos, yPos, center, extension, stepsize, abort,
                   data, reckoned, runs, jogs, faults>>
    /\ dev' = Heard(stack, stack')
    /\ UNCHANGED closing

\* ScanApp.start_scan, from the main loop
StartScan ==
    /\ Idle
    /\ PressStart

\* ScanApp.start_scan, while a heatmap refresh of a run or jog processes
\* pending events
start_scan_refresh ==
    /\ ~Idle
    /\ Top.st = "flush"
    /\ runs < MaxRuns
    /\ PressStart

\* the first press of Start
start_scan ==
    /\ runs = 0
    /\ StartScan

\* ScanApp.start_scan, from the main loop after an earlier run has returned
start_scan_again ==
    /\ runs > 0
    /\ runs < MaxRuns
    /\ StartScan

\* ScanApp.abort_scan, from the main loop or while a heatmap refresh
\* processes pending events
abort_scan ==
    /\ ~closing
    /\ IF Idle THEN TRUE ELSE Top.st = "flush"
    /\ abort' = TRUE
    /\ UNCHANGED <<open, rx, xPos, yPos, center, extension, stepsize, data,
                   stack, reckoned, runs, jogs, faults>>
    /\ UNCHANGED dev
    /\ UNCHANGED closing

\* ScanApp.on_center_change: a key released in the center or extension entry
\* writes the entries into the scanner
EditEntries ==
    /\ ~closing
    /\ \E c \in Centers, e \in Exts :
          /\ center' = c
          /\ extension' = e
    /\ UNCHANGED <<open, rx, xPos, yPos, stepsize, abort, data, stack,
                   reckoned, runs, jogs, faults>>
    /\ UNCHANGED dev
    /\ UNCHANGED closing

\* ScanApp.on_center_change, from the main loop
on_center_change ==
    /\ Idle
    /\ EditEntries

\* ScanApp.on_center_change, while a heatmap refresh of a run processes
\* pending events
on_center_change_refresh ==
    /\ InRun
    /\ Top.st = "flush"
    /\ EditEntries

\* ScanApp.scanner_move: a jog button
PressJog ==
    /\ ~closing
    /\ jogs < MaxJogs
    /\ jogs' = jogs + 1
    /\ \E axis \in {"x", "y"}, direction \in {-1, 1}, step \in Steps :
          stack' = <<[Goto(NewFrame("jog"), "jog") EXCEPT
                         !.axis = axis, !.steps = direction * step]>> \o stack
    /\ UNCHANGED <<open, rx, xPos, yPos, center, extension, stepsize, abort,
                   data, reckoned, runs, faults>>
    /\ dev' = Heard(stack, stack')
    /\ UNCHANGED closing

\* ScanApp.scanner_move, from the main loop
ScannerMove ==
    /\ Idle
    /\ PressJog

\* ScanApp.scanner_move, while a heatmap refresh of a run processes pending
\* events
scanner_move_refresh ==
    /\ InRun
    /\ Top.st = "flush"
    /\ PressJog

\* a jog button pressed while the stage is being placed for the run
scanner_move ==
    /\ runs = 0
    /\ ScannerMove

\* Scanner.move_axis up to its wait: nothing to do for 0 steps, else the
\* command is sent
move_axis ==
    /\ ~Idle
    /\ Top.st = "call"
    /\ Top.pc \in MoveSites
    /\ LET f == Top
           axis == MoveArgs(f)[1]
           steps == MoveArgs(f)[2]
       IN  stack' = SetTop(OnLink(f,
              IF steps = 0 THEN MoveOk(f)
              ELSE [Counted(f, f.pc) EXCEPT !.st = "ack", !.axis = axis,
                       !.steps = steps, !.cmd = MoveCmd(axis, steps)]))
    /\ UNCHANGED <<open, rx, xPos, yPos, center, extension, stepsize, abort,
                   data, reckoned, runs, jogs, faults>>
    /\ dev' = Heard(stack, stack')
    /\ UNCHANGED closing

\* the device writes a line while the program waits for one; it writes the
\* next once that one has been read
device_line ==
    /\ ~Idle
    /\ Top.st \in {"ack", "adc"}
    /\ dev.mode \in {"any", "lossy"}
    /\ rx = << >>
    /\ \E line \in Lines :
          /\ rx' = Append(rx, line)
          /\ IF line = OddLine
             THEN faults < MaxFaults /\ faults' = faults + 1
             ELSE faults' = faults
    /\ UNCHANGED <<open, xPos, yPos, center, extension, stepsize, abort, data,
                   stack, reckoned, runs, jogs>>
    /\ UNCHANGED dev
    /\ UNCHANGED closing

\* the response of a device that follows the protocol to a command
Reply(kind) == IF kind = "adc read" THEN AdcLine ELSE OkLine

\* a device that follows the protocol writes the response it owes first
device_reply ==
    /\ dev.mode = "ok"
    /\ dev.owed # << >>
    /\ rx' = Append(rx, Reply(Head(dev.owed)))
    /\ dev' = [dev EXCEPT !.owed = Tail(@)]
    /\ UNCHANGED closing
    /\ UNCHANGED <<open, xPos, yPos, center, extension, stepsize, abort, data,
                   stack, reckoned, runs, jogs, faults>>

\* variant: the wait loops have no deadline
TimedOut_Never(buffer) == FALSE

\* `while time.time() < deadline` ends a wait: the deadline passes while no
\* line is there to be read
TimedOut(buffer) == buffer = << >>

\* the effect of wait_for_ack returning ok at the call site of the top frame
AckReturns(ok) ==
    LET f == Top
        g == [f EXCEPT !.lost = f.lost \/ ~ok, !.unawaited = f.unawaited - 1,
                       !.nAck = IF ok THEN f.nAck + 1 ELSE f.nAck]
    IN  IF f.pc \in MoveSites
        THEN /\ xPos' = AfterAck(<<xPos, yPos>>, f.axis, f.steps, ok)[1]
             /\ yPos' = AfterAck(<<xPos, yPos>>, f.axis, f.steps, ok)[2]
             /\ reckoned' = IF ok THEN <<reckoned[1] + CmdDelta(f.cmd, "x"),
                                         reckoned[2] + CmdDelta(f.cmd, "y")>>
                            ELSE reckoned
             /\ stack' = SetTop(IF ok THEN [g EXCEPT !.st = "flush",
                                                      !.dirty = FALSE]
                                ELSE MoveFailed(g))
        ELSE /\ stack' = SetTop(IF ok THEN AckOk(g) ELSE AckFailed(g))
             /\ UNCHANGED <<xPos, yPos, reckoned>>

\* wait_for_ack reads a line: one with the marker ends the wait, any other
\* line is dropped
wait_for_ack_line ==
    /\ ~Idle
    /\ Top.st = "ack"
    /\ rx # << >>
    /\ rx' = Tail(rx)
    /\ IF Head(rx) # BlankLine /\ HasAck(Head(rx))
       THEN AckReturns(TRUE)
       ELSE UNCHANGED <<xPos, yPos, reckoned, stack>>
    /\ UNCHANGED <<open, center, extension, stepsize, abort, data,
                   runs, jogs, faults>>
    /\ dev' = Heard(stack, stack')
    /\ UNCHANGED closing

\* wait_for_ack reaches its deadline
wait_for_ack_timeout ==
    /\ ~Idle
    /\ Top.st = "ack"
    /\ TimedOut(rx)
    /\ AckReturns(FALSE)
    /\ UNCHANGED <<open, rx, center, extension, stepsize, abort, data,
                   runs, jogs, faults>>
    /\ dev' = Heard(stack, stack')
    /\ UNCHANGED closing

\* Scanner.update_heatmap returns and move_axis returns True
update_heatmap ==
    /\ ~Idle
    /\ Top.st = "flush"
    /\ stack' = SetTop(OnLink(Top, MoveOk(Top)))
    /\ UNCHANGED <<open, rx, xPos, yPos, center, extension, stepsize, abort,
                   data, reckoned, runs, jogs, faults>>
    /\ dev' = Heard(stack, stack')
    /\ UNCHANGED closing

\* variant: the abort flag is not looked at
AtColumnTop_Unchecked(f, flag, pos) ==
    [f EXCEPT !.st = "adc", !.cmd = PlainCmd("adc read"),
       !.nSent = f.nSent + 1, !.unawaited = f.unawaited + 1,
       !.nRead = f.nRead + 1, !.samples = Append(f.samples, pos)]

\* `if self.abort: return`, else adc_get_value sends `adc read` at pos
AtColumnTop(f, flag, pos) ==
    IF flag THEN End(f, "abort")
    ELSE [f EXCEPT !.st = "adc", !.cmd = PlainCmd("adc read"),
             !.nSent = f.nSent + 1, !.unawaited = f.unawaited + 1,
             !.nRead = f.nRead + 1, !.samples = Append(f.samples, pos)]

\* top of a column: the abort check, then adc_get_value sends `adc read`
column_top ==
    /\ ~Idle
    /\ Top.st = "call"
    /\ Top.pc = "col"
    /\ stack' = SetTop(OnLink(Top, AtColumnTop(Top, abort, <<xPos, yPos>>)))
    /\ UNCHANGED <<open, rx, xPos, yPos, center, extension, stepsize, abort,
                   data, reckoned, runs, jogs, faults>>
    /\ dev' = Heard(stack, stack')
    /\ UNCHANGED closing

\* adc_get_value returned val: the sample is stored, then the x-step follows
AdcReturns(val) ==
    /\ data' = StoreSample(data, xPos, yPos, val, stepsize)
    /\ stack' = SetTop([(IF Raises(xPos, yPos, val, stepsize)
                         THEN End(Top, "raise") ELSE Goto(Top, "xstep")) EXCEPT
                           !.unawaited = Top.unawaited - 1,
                           !.dirty = Top.dirty \/
                              SampleCells(xPos, yPos, val, stepsize) # {},
                           !.nMiss = IF val = None THEN Top.nMiss + 1
                                     ELSE Top.nMiss,
                           !.vals = Top.vals \cup {val}])

\* wait_for_adc_value reads a line: one that matches ends the wait, any other
\* line is dropped
wait_for_adc_value_line ==
    /\ ~Idle
    /\ Top.st = "adc"
    /\ rx # << >>
    /\ rx' = Tail(rx)
    /\ IF Head(rx) # BlankLine /\ AdcParse(Head(rx)) # None
       THEN AdcReturns(AdcParse(Head(rx)))
       ELSE UNCHANGED <<data, stack>>
    /\ UNCHANGED <<open, xPos, yPos, center, extension, stepsize, abort,
                   reckoned, runs, jogs, faults>>
    /\ dev' = Heard(stack, stack')
    /\ UNCHANGED closing

\* wait_for_adc_value reaches its deadline: adc_get_value returns None
wait_for_adc_value_timeout ==
    /\ ~Idle
    /\ Top.st = "adc"
    /\ TimedOut(rx)
    /\ IF dev.mode = "lossy" THEN faults' = faults
       ELSE faults < MaxFaults /\ faults' = faults + 1
    /\ AdcReturns(None)
    /\ UNCHANGED <<open, rx, xPos, yPos, center, extension, stepsize, abort,
                   reckoned, runs, jogs>>
    /\ dev' = Heard(stack, stack')
    /\ UNCHANGED closing

\* the handler returns to its caller
handler_return ==
    /\ ~Idle
    /\ Top.st = "end"
    /\ stack' = Tail(stack)
    /\ UNCHANGED <<open, rx, xPos, yPos, center, extension, stepsize, abort,
                   data, reckoned, runs, jogs, faults>>
    /\ dev' = Heard(stack, stack')
    /\ UNCHANGED closing

\* one scan run
Next ==
    \/ connect_serial
    \/ on_closing
    \/ mainloop_exit
    \/ start_scan_closed
    \/ start_scan
    \/ run_scan_entry
    \/ abort_scan
    \/ move_axis
    \/ device_line
    \/ wait_for_ack_line
    \/ wait_for_ack_timeout
    \/ update_heatmap
    \/ column_top
    \/ wait_for_adc_value_line
    \/ wait_for_adc_value_timeout
    \/ handler_return

Spec == Init /\ [][Next]_vars

\* a session of the application: parameters edited and the stage jogged into
\* place from the main loop, one run, further edits
NextApp ==
    \/ Next
    \/ on_center_change
    \/ scanner_move

SpecApp == InitApp /\ [][NextApp]_vars

\* the application as constructed with a stepsize entry among `entered`, at
\* the other end of the link a device that follows the protocol
Constructed(extents, entered) ==
    /\ open = FALSE
    /\ rx = << >>
    /\ center \in Centers
    /\ extension \in extents
    /\ stepsize \in entered
    /\ xPos = center[1]
    /\ yPos = center[2]
    /\ abort = FALSE
    /\ data = EmptyGrid
    /\ stack = << >>
    /\ reckoned = <<xPos, yPos>>
    /\ runs = 0
    /\ jogs = 0
    /\ faults = 0
    /\ dev = [mode |-> "ok", owed |-> << >>]
    /\ closing = FALSE

InitLink == Constructed(Exts, Steps)

\* what the program does in every session
Program ==
    \/ connect_serial
    \/ on_closing
    \/ mainloop_exit
    \/ start_scan_closed
    \/ start_scan
    \/ run_scan_entry
    \/ abort_scan
    \/ move_axis
    \/ wait_for_ack_line
    \/ wait_for_ack_timeout
    \/ update_heatmap
    \/ column_top
    \/ wait_for_adc_value_line
    \/ wait_for_adc_value_timeout
    \/ handler_return

\* one run and a jog, from the main loop or during a refresh of the run,
\* against a device that follows the protocol
NextLink ==
    \/ Program
    \/ device_reply
    \/ scanner_move
    \/ scanner_move_refresh

SpecLink == InitLink /\ [][NextLink]_vars

\* Start pressed again while a run refreshes the heatmap
NextStart ==
    \/ Program
    \/ device_reply
    \/ start_scan_refresh

SpecStart == InitLink /\ [][NextStart]_vars

\* int(self.ext_entry.get()) and int(self.stepsize_entry.get()) accept any
\* integer
ExtsEntered == -1 .. MaxExt
StepsEntered == -1 .. MaxStep

InitSteps == Constructed(ExtsEntered, StepsEntered)

\* one run with the parameters as entered
NextSteps ==
    \/ Program
    \/ device_reply

SpecSteps == InitSteps /\ [][NextSteps]_vars

\* the application as constructed with a valid extension, the device free
\* to write anything or nothing
InitLive ==
    /\ open = FALSE
    /\ rx = << >>
    /\ center \in Centers
    /\ extension \in 1 .. MaxExt
    /\ stepsize \in Steps
    /\ xPos = center[1]
    /\ yPos = center[2]
    /\ abort = FALSE
    /\ data = EmptyGrid
    /\ stack = << >>
    /\ reckoned = <<xPos, yPos>>
    /\ runs = 0
    /\ jogs = 0
    /\ faults = 0
    /\ dev = [mode |-> "lossy", owed |-> << >>]
    /\ closing = FALSE

NextLive ==
    \/ Program
    \/ device_line

\* The handler runs on: each step of the program that is ready is taken.
\* Time passes: a wait that keeps finding nothing to read reaches its
\* deadline.  Nothing is assumed of the device or the user.
Fairness ==
    /\ WF_vars(run_scan_entry)
    /\ WF_vars(move_axis)
    /\ WF_vars(update_heatmap)
    /\ WF_vars(column_top)
    /\ WF_vars(handler_return)
    /\ WF_vars(wait_for_ack_line)
    /\ WF_vars(wait_for_adc_value_line)
    /\ SF_vars(wait_for_ack_timeout)
    /\ SF_vars(wait_for_adc_value_timeout)

SpecLive == InitLive /\ [][NextLive]_vars /\ Fairness


\* a session of the application as constructed in which Start is pressed
\* again after a run has returned
NextAgain ==
    \/ Next
    \/ start_scan_again

SpecAgain == InitApp /\ [][NextAgain]_vars


\* one run during which the center and extension entries are edited, against
\* a device that follows the protocol
NextEdit ==
    \/ Program
    \/ device_reply
    \/ on_center_change_refresh

SpecEdit == InitLink /\ [][NextEdit]_vars


\* ------------------------------------------------------------------ claims
Ended(why) == InRun /\ Top.st = "end" /\ Top.how = why

HomeSites == {"home_cx", "home_cy", "home_fx", "home_fy"}

\* the first corner of the raster, and the number of points per row
Corner == <<center[1] - extension, center[2] - extension>>
N == NumPoints(extension, stepsize)

\* the k-th point of the raster, rows bottom-up, each row left to right
RasterPoint(k) ==
    <<Corner[1] + ((k - 1) % N) * stepsize, Corner[2] + ((k - 1) \div N) * stepsize>>

\* C2 (state part): `set tau` is in flight only after `set speed` was
\* acknowledged, a move, `adc on` or `adc read` is sent only after both were,
\* and a run ended by a missing acknowledgement of a setting has sent none of
\* them and has left the grid as it was when the run began.
C2_Order ==
    InRun =>
       /\ Top.cmd.kind = "set tau" => Top.cfg >= 1
       /\ (Top.nMove > 0 \/ Top.on \/ Top.nRead > 0) => Top.cfg = 2
       /\ (Top.st = "end" /\ Top.how = "cfg") =>
             /\ Top.nMove = 0 /\ ~Top.on /\ Top.nRead = 0
             /\ Top.cmd.kind \in {"set speed", "set tau"}
             /\ data = Top.d0

\* C2 (step part): a step taken while a setting awaits its acknowledgement
\* moves neither coordinate and writes no cell, and when the wait fails the
\* run ends with that step.
C2_Step ==
    (InRun /\ Top.st = "ack" /\ Top.pc \in {"speed", "tau"}) =>
       /\ xPos' = xPos /\ yPos' = yPos /\ data' = data
       /\ InRun'
       /\ Top'.lost => (Top'.st = "end" /\ Top'.how = "cfg")

\* C2: configuring is fail-fast.
C2_ConfigFailFast == []C2_Order /\ [][C2_Step]_vars

\* C2 witness: `set speed` was acknowledged, `set tau` was not, the run ended
C2_Witness == Ended("cfg") /\ Top.cfg = 1 /\ Top.cmd.kind = "set tau"

\* C3: the first sample is requested at the first corner of the raster,
\* (center.x - extension, center.y - extension), whatever the starting
\* position; a run in which a homing move was not acknowledged has sent
\* neither `adc on` nor a sample request.
C3_Homing ==
    InRun =>
       /\ Top.samples # << >> => Top.samples[1] = Corner
       /\ (Top.nRead = 1 /\ Top.st = "adc") => <<xPos, yPos>> = Corner
       /\ (Top.lost /\ Top.pc \in HomeSites) =>
             (Top.st = "end" /\ ~Top.on /\ Top.nRead = 0)

\* C3 witness: all four homing moves were needed and acknowledged, and the
\* first sample is being requested
C3_Witness ==
    /\ InRun /\ Top.nRead = 1 /\ Top.st = "adc" /\ Top.pc = "col"
    /\ Top.nMove = 4

\* C4: a run that reaches its end without abort or failed move has requested
\* exactly N*N samples, the k-th at the k-th raster point, so each point
\* (Corner.x + a*stepsize, Corner.y + b*stepsize), 0 <= a, b < N, exactly
\* once and each row starting at column Corner.x; at any moment of a run the
\* samples requested so far are the first raster points in order.
C4_Raster ==
    InRun =>
       /\ \A k \in DOMAIN Top.samples : Top.samples[k] = RasterPoint(k)
       /\ Len(Top.samples) <= N * N
       /\ Top.nRead = Len(Top.samples)
       /\ (Top.st = "end" /\ Top.how = "done") => Len(Top.samples) = N * N

\* C4 witness: a complete run over a 3 x 3 raster
C4_Witness == Ended("done") /\ ~Top.lost /\ Len(Top.samples) = 9 /\ N = 3

\* C5 as claimed: when Scanning has ended (adc off is sent) the run has issued
\* floor(2*extension/stepsize) slow-axis steps, and stands that many steps of
\* stepsize above the first row when the return begins.
C5_SlowAxisSteps ==
    (InRun /\ Top.off) =>
       /\ Top.nY = N - 1
       /\ (Top.pc = "ret_x" /\ Top.st = "call") =>
             yPos = Corner[2] + (N - 1) * stepsize

\* C6 (step): while the abort flag is set no step of the run sends `adc read`,
\* writes a grid cell, or issues the fast-axis +stepsize move of a column.
C6_Step ==
    (InRun /\ abort /\ InRun') =>
       /\ Top'.nRead = Top.nRead
       /\ Top'.samples = Top.samples
       /\ data' = data
       /\ Top'.nX = Top.nX

\* C6: once the abort flag is set while a run is in Scanning, no further
\* `adc read` is sent and no grid cell is written by that run, and the
\* fast-axis move that follows the next column's sample is never issued: the
\* run ends at the top of the next column it reaches.
C6_AbortStopsSampling ==
    /\ [][C6_Step]_vars
    /\ [][(InRun /\ abort /\ Top.pc = "col" /\ Top.st = "call") =>
             (Top'.st = "end" /\ Top'.how = "abort")]_vars

\* C6 witness: the flag was set while Scanning, after some but not all of the
\* samples, and the run ended on it
C6_Witness ==
    /\ Ended("abort") /\ abort
    /\ Top.nRead >= 1 /\ Top.nRead < N * N
    /\ Top.nX = Top.nRead

\* C7 as claimed: from the moment the flag is set during Homing or Scanning
\* the run issues no slow-axis step and no sample request, never sends
\* `adc off` (the entry to Returning), and does not end as a completed run.
C7_Step ==
    (InRun /\ abort /\ ~Top.off /\ InRun') =>
       /\ Top'.nY = Top.nY
       /\ Top'.nRead = Top.nRead
       /\ ~Top'.off
       /\ Top'.how # "done"

\* C7 as claimed: setting the abort flag during Homing or Scanning stops the
\* run before a new column or row, as Aborted and without Returning.
C7_AbortStopsRun == [][C7_Step]_vars

\* C8 (step): a step in which adc_get_value returns no value writes NaN at
\* the cell of the current position if that cell is in the grid, writes no
\* other cell, and leaves the run about to issue the fast-axis step.
C8_MissStep ==
    (InRun /\ InRun' /\ Top'.nMiss = Top.nMiss + 1) =>
       /\ \A yy \in Cells : \A xx \in Cells :
             data'[yy][xx] = IF yy = yPos /\ xx = xPos THEN NaN ELSE data[yy][xx]
       /\ Top'.pc = "xstep" /\ Top'.st = "call"
       /\ Top'.samples = Top.samples

\* C8 (step): the fast-axis step that follows a sample is issued
C8_StepFollows ==
    (InRun /\ Top.pc = "xstep" /\ Top.st = "call") =>
       /\ Top'.nX = Top.nX + 1
       /\ Top'.cmd = MoveCmd("x", stepsize)
       /\ Top'.st = "ack"

\* C8: a sample miss writes NaN at the cell of the current position and no
\* other cell, and does not end the run: the fast-axis step follows and a run
\* with misses that reaches its end has still visited all N*N points.
C8_MissContinues ==
    /\ [][C8_MissStep]_vars
    /\ [][C8_StepFollows]_vars
    /\ [](Ended("done") => Len(Top.samples) = N * N)

\* C8 witness: a run with one miss over a previously filled grid has ended
\* complete, the cell of the miss cleared
C8_Witness ==
    /\ Ended("done") /\ ~Top.lost /\ Top.nMiss = 1
    /\ Top.d0 = OldGrid
    /\ \E yy \in Cells : \E xx \in Cells : data[yy][xx] = NaN

\* C9: after a run that reached its end with every command acknowledged, the
\* stored position equals center on both axes, for every extension,
\* stepsize and starting position.
C9_ReturnsToCenter ==
    (Ended("done") /\ ~Top.lost) => <<xPos, yPos>> = center

\* C9 witness: a complete run whose return needed a move on both axes
C9_Witness ==
    /\ Ended("done") /\ ~Top.lost /\ ~abort
    /\ Top.cmd = MoveCmd("y", - (N * stepsize - extension))
    /\ <<xPos, yPos>> = center

\* the cells of the scan square
InSquare(yy, xx) ==
    Abs(xx - center[1]) <= extension /\ Abs(yy - center[2]) <= extension

\* C10: after a complete run with stepsize 1, every command acknowledged and
\* every read returning v, each grid cell (x, y) of the scan square holds v
\* at row y, column x, and every other cell holds what it held before.
C10_GridAfterRun ==
    (Ended("done") /\ ~Top.lost /\ stepsize = 1) =>
       \A v \in {7, -8} :
          Top.vals = {Some(v)} =>
             \A yy \in Cells : \A xx \in Cells :
                data[yy][xx] = IF InSquare(yy, xx) THEN Some(v) ELSE Top.d0[yy][xx]

\* C10 witness: such a run around a center at the edge of a filled grid
C10_Witness ==
    /\ Ended("done") /\ ~Top.lost /\ stepsize = 1 /\ extension = 1
    /\ Top.vals = {Some(7)}
    /\ center = <<0, 2>>
    /\ Top.d0 = OldGrid
    /\ data[2][0] = Some(7) /\ data[0][0] = Some(-8)

\* C1 (step): a move whose wait_for_ack failed or timed out changes neither
\* coordinate, and an acknowledged one changes the coordinate of its axis by
\* its steps.
C1_Step ==
    (~Idle /\ ~Idle' /\ Top.st = "ack" /\ Top.pc \in MoveSites) =>
       /\ Top'.lost /\ ~Top.lost => (xPos' = xPos /\ yPos' = yPos)
       /\ Top'.st = "flush" =>
             <<xPos', yPos'>> = <<xPos + CmdDelta(Top.cmd, "x"),
                                  yPos + CmdDelta(Top.cmd, "y")>>

\* C1: dead reckoning.  At every moment the stored position equals the
\* initial position plus the displacements of exactly the move commands
\* (homing, scanning, returning, jog) that were acknowledged.
C1_DeadReckoning ==
    /\ [](<<xPos, yPos>> = reckoned)
    /\ [][C1_Step]_vars
    /\ [][(Idle \/ Idle' \/ Top.st # "ack") => (xPos' = xPos /\ yPos' = yPos)]_vars

\* C1 witness: a jog was acknowledged and moved the stage, and a move of the
\* run that followed was not acknowledged
C1_Witness ==
    /\ jogs = 1
    /\ Ended("move")
    /\ Top.lost
    /\ Top.nMove >= 2
    /\ <<xPos, yPos>> # center

\* C11 (step) as claimed: the step that sends a command enters the wait for
\* its response, the wait for every earlier command having returned.
C11_Step ==
    (InRun /\ InRun' /\ Top'.nSent > Top.nSent) =>
       /\ Top'.unawaited = 1
       /\ Top'.st \in {"ack", "adc"}

\* C11 as claimed: no pipelining.  During a run every command sent is
\* followed by a wait for its response that returns before the next command
\* is sent, so there is never more than one command outstanding.
C11_NoPipelining ==
    /\ [](InRun => Top.unawaited <= 1)
    /\ [][C11_Step]_vars

\* C12 as claimed: against a device that writes one OK line per command it
\* receives, when wait_for_ack accepts an acknowledgement for a move (and the
\* position is advanced) the line accepted is the device's response to that
\* move, the most recent command: the device owes no response and no OK line
\* is left unread.
C12_Step ==
    (~Idle /\ ~Idle' /\ Top.st = "ack" /\ Top.pc \in MoveSites
        /\ Top'.st = "flush") =>
       /\ dev.owed = << >>
       /\ \A k \in DOMAIN rx' : ~HasAck(rx'[k])

C12_AckOfLatestCommand == [][C12_Step]_vars

\* a jog is active inside a run: its frame lies above a frame of run_scan
JogInsideRun ==
    /\ Len(stack) >= 2
    /\ Top.op = "jog"
    /\ \E k \in 2 .. Len(stack) : stack[k].op = "scan"

\* C14 (step) as claimed: the step in which a jog sends its move command
\* while a run is in progress finds every command of the run answered by a
\* wait that has returned.
C14_Step ==
    (JogInsideRun /\ JogInsideRun' /\ Top'.nSent > Top.nSent) =>
       \A k \in 2 .. Len(stack) : stack[k].unawaited = 0

\* C14 as claimed: a jog requested while a run is in progress is not
\* interleaved with it: its move command is never sent between a command of
\* the run and that command's response.
C14_JogNotInterleaved == [][C14_Step]_vars

\* the runs that have begun and not yet returned
ActiveRuns == {k \in DOMAIN stack : stack[k].op = "scan"}

\* C13 (step) as claimed: Start pressed with the link closed or with a run
\* active sends no command and changes no state.
C13_Step ==
    (runs' # runs) => (open /\ ActiveRuns = {})

\* C13 as claimed: at most one run is active at any time, also when Start is
\* pressed while an active run refreshes the heatmap inside move_axis, and a
\* press of Start with the link closed or a run active is rejected.
C13_SingleRun ==
    /\ [](Cardinality(ActiveRuns) <= 1)
    /\ [][C13_Step]_vars

\* C15 (step): a step changes no cell other than those within half_step of
\* the current position on both axes, and only as a run stores a sample.
C15_WriteStep ==
    \A yy \in Cells : \A xx \in Cells :
       data'[yy][xx] # data[yy][xx] =>
          /\ InRun /\ Top.st = "adc"
          /\ Abs(yy - yPos) <= half_step(stepsize)
          /\ Abs(xx - xPos) <= half_step(stepsize)

\* C15 (step): when adc_get_value returns, in or out of the grid, the run
\* goes on to the fast-axis step
C15_ContinueStep ==
    (InRun /\ InRun' /\ Top.st = "adc" /\ Top' # Top) =>
       (Top'.pc = "xstep" /\ Top'.st = "call")

\* C15: grid writes are always in bounds.  A write whose position, or part of
\* whose block, lies outside the grid is skipped without raising, and the run
\* continues as if it had happened: same commands, same points visited.
C15_WritesInBounds ==
    /\ [][C15_WriteStep]_vars
    /\ [][C15_ContinueStep]_vars
    /\ [](InRun => Top.how # "raise")
    /\ [](InRun => \A k \in DOMAIN Top.samples : Top.samples[k] = RasterPoint(k))

\* C15 witness: a complete run whose samples lay outside the grid to the
\* left and above, a block partly inside stored in the cells inside
C15_Witness ==
    /\ Ended("done") /\ ~Top.lost /\ Top.nMiss = 0
    /\ stepsize = 2
    /\ \E k \in DOMAIN Top.samples : Top.samples[k][1] < 0
    /\ \E k \in DOMAIN Top.samples : Top.samples[k][2] >= GridSize
    /\ Top.d0 = OldGrid
    /\ data[1][0] = Some(7)

\* C16 as claimed: a run started with a stepsize of 0 or less is rejected
\* before it starts: it sends no command and changes neither the position
\* nor the grid.
C16_BadStepRejected ==
    (InRun /\ stepsize <= 0) =>
       /\ Top.nSent = 0
       /\ <<xPos, yPos>> = reckoned
       /\ reckoned = center
       /\ data = Top.d0

\* C17 (step): run_scan entered with extension <= 0 returns at once: the
\* step sends no command and leaves position, grid and abort flag unchanged.
C17_EntryStep ==
    (InRun /\ Top.pc = "entry" /\ Top.st = "call" /\ extension <= 0) =>
       /\ InRun' /\ Top'.st = "end" /\ Top'.how = "ext"
       /\ Top'.nSent = 0
       /\ dev' = dev /\ rx' = rx
       /\ xPos' = xPos /\ yPos' = yPos /\ data' = data /\ abort' = abort

\* C17: a run started with extension <= 0 is an immediate no-op failure: it
\* never enters Homing, sends no command, and leaves position, grid and
\* abort flag unchanged.
C17_BadExtensionNoOp ==
    /\ [][C17_EntryStep]_vars
    /\ [](InRun /\ extension <= 0 =>
             /\ Top.pc = "entry" /\ Top.nSent = 0 /\ Top.nMove = 0
             /\ Top.cmd.kind = "none"
             /\ data = Top.d0
             /\ <<xPos, yPos>> = center)

\* C17 witness: a run entered with a negative extension has returned
C17_Witness == Ended("ext") /\ extension < 0 /\ open /\ Top.nSent = 0

\* C18 (step) as claimed: a grid write is made only when every earlier write
\* has been followed by a heatmap update.
C18_Step ==
    (InRun /\ InRun' /\ Top.st = "adc" /\ Top'.pc = "xstep") => ~Top.dirty

\* C18 as claimed: after every grid write of a run update_heatmap is called
\* before the next grid write and before the run ends, also when the move
\* that follows the write is not acknowledged or the run is aborted.
C18_WriteThenUpdate ==
    /\ [][C18_Step]_vars
    /\ [](InRun /\ Top.st = "end" => ~Top.dirty)

\* C19 (step): each return move is attempted with the distance to center on
\* its axis; after the x return move, acknowledged or not, the y return move
\* is attempted, and after the y return move the run ends.  A return move
\* attempted on a link that was closed meanwhile ends the run with the
\* exception of its send.
C19_Step ==
    (InRun /\ InRun' /\ Top.pc \in {"ret_x", "ret_y"} /\ Top' # Top) =>
       /\ (Top.st = "call" /\ Top'.st = "ack") =>
             /\ open
             /\ Top'.cmd = (IF Top.pc = "ret_x"
                            THEN MoveCmd("x", center[1] - xPos)
                            ELSE MoveCmd("y", center[2] - yPos))
       /\ (Top.st = "call" /\ Top'.st # "ack") =>
             \/ (IF Top.pc = "ret_x" THEN xPos = center[1] ELSE yPos = center[2])
             \/ ~open /\ Top'.st = "end" /\ Top'.how = "io"
       /\ (Top.pc = "ret_x" /\ Top'.pc # "ret_x") =>
             (Top'.pc = "ret_y" /\ Top'.st = "call")
       /\ (Top.pc = "ret_y" /\ Top.st \in {"call", "ack", "flush"}) =>
             (Top'.pc = "ret_y" /\ Top'.st \in {"ack", "flush", "end"})
       /\ Top'.st = "end" =>
             \/ Top'.how = "done"
             \/ Top'.how = "io" /\ ~open /\ Top.st = "call"

\* C19: Returning is not fatal on failure.  After Scanning `adc off` is sent,
\* then the x and the y return move are each attempted with delta center -
\* position, the y move also when the x move was not acknowledged, and the
\* run ends in every case.
C19_ReturningNotFatal ==
    /\ [][C19_Step]_vars
    /\ [](InRun /\ Top.pc \in {"ret_x", "ret_y"} => Top.off)
    /\ [](InRun /\ Top.pc = "ret_x" /\ Top.st = "call" =>
             Top.cmd.kind = "adc off")
    /\ [](InRun /\ Top.off => Top.pc \in {"ret_x", "ret_y"})

\* C19 witness: the x return move was not acknowledged, the y return move
\* was, and the run has ended
C19_Witness ==
    /\ Ended("done") /\ Top.lost
    /\ xPos # center[1]
    /\ yPos = center[2]
    /\ Top.cmd = MoveCmd("y", - (N * stepsize - extension))

\* C20: every run terminates.  Whatever the device writes (nothing, blank
\* lines, noise, acknowledgements, ADC lines), a run that has started reaches
\* its end and the handler returns (or the program is closed), for every
\* extension >= 1 and stepsize >= 1; no wait stays pending.
C20_RunTerminates == (~Idle /\ ~Exited) ~> (Idle \/ Exited)

\* C20 witness: a run has ended complete although three of its reads timed
\* out and its x return move was not acknowledged
C20_Witness ==
    /\ Ended("done") /\ Top.lost
    /\ Top.nMiss >= 3
    /\ dev.mode = "lossy"

\* C21 (step): while wait_for_ack waits, it returns True in exactly the steps
\* in which it reads a line that contains the marker (of the lines the device
\* writes here, the line "OK" and no other); a line it reads that
\* does not contain the marker is taken out of the buffer and the wait goes
\* on; the wait returns False only with nothing left to read, and the handler
\* goes on or ends as its caller decides, without an exception.
C21_Step ==
    (~Idle /\ Top.st = "ack" /\ Len(stack') = Len(stack)) =>
       /\ Top'.nAck = Top.nAck + 1 <=>
             (rx # << >> /\ Head(rx) = OkLine /\ rx' = Tail(rx))
       /\ Top'.nAck \in {Top.nAck, Top.nAck + 1}
       /\ (rx # << >> /\ rx' = Tail(rx) /\ Head(rx) # OkLine) => Top' = Top
       /\ (Top' # Top /\ Top'.nAck = Top.nAck) =>
             /\ rx = << >> /\ rx' = << >>
             /\ Top'.lost
             /\ Top'.how # "raise"

\* C21 (step): a line leaves the buffer only at its head, as a wait reads it,
\* or with all others as the link is opened, and no step puts a line back: what a wait has
\* read no later wait is given.
C21_NoReplay ==
    (rx' # rx) =>
       \/ rx # << >> /\ rx' = Tail(rx) /\ ~Idle /\ Top.st \in {"ack", "adc"}
       \/ \E line \in Lines : rx' = Append(rx, line)
       \/ (Idle \/ Top.st = "flush") /\ rx' = << >>

\* C21: wait_for_ack returns success if and only if a line containing the
\* acknowledgement marker is read before the deadline; every other line read
\* (blank, noise or ADC line) is consumed and never delivered to a later
\* wait; with no marker line before the deadline it returns failure rather
\* than raising.
C21_WaitForAck ==
    /\ [][C21_Step]_vars
    /\ [][C21_NoReplay]_vars

\* C21 witness: in a run whose earlier waits returned True on a marker line,
\* the wait for the x return move has returned False at its deadline, and the
\* wait for the y return move is about to read an ADC line
C21_Witness ==
    /\ InRun /\ Top.pc = "ret_y" /\ Top.st = "ack"
    /\ Top.lost
    /\ Top.nAck >= 8
    /\ rx = <<AdcLine>>

\* the cells a step has changed
Changed == {c \in Cells \X Cells : data'[c[1]][c[2]] # data[c[1]][c[2]]}

\* C22 (step) as claimed: the cells changed by the step that stores a
\* successful sample with stepsize > 1 lie within stepsize rows and stepsize
\* columns.
C22_Step ==
    (InRun /\ InRun' /\ Top.st = "adc" /\ Top'.pc = "xstep"
        /\ Top'.nMiss = Top.nMiss /\ stepsize > 1) =>
       \A c \in Changed : \A d \in Changed :
          /\ Abs(c[1] - d[1]) < stepsize
          /\ Abs(c[2] - d[2]) < stepsize

\* C22 as claimed: with stepsize > 1 a successful sample is replicated into
\* a block exactly stepsize cells wide on each axis around the current
\* position, and the blocks of two different sample points of a run share no
\* cell, for every stepsize, even or odd.
C22_BlocksTile ==
    /\ [][C22_Step]_vars
    /\ [](InRun /\ stepsize > 1 =>
             \A k \in DOMAIN Top.samples : \A l \in DOMAIN Top.samples :
                k # l =>
                   BlockCells(Top.samples[k][1], Top.samples[k][2], stepsize)
                      \cap BlockCells(Top.samples[l][1], Top.samples[l][2],
                                      stepsize) = {})

\* C23 (step): a press of Start with the link open begins a run and leaves
\* the abort flag cleared; the flag is set by a press of Abort and by nothing
\* else, so a flag found set at a column was set after the run began.
C23_Step ==
    /\ (runs' # runs) =>
          /\ Idle /\ ~abort'
          /\ InRun' /\ Top'.pc = "entry" /\ Top'.st = "call" /\ Top'.nSent = 0
    /\ (abort' /\ ~abort) => (stack' = stack /\ runs' = runs)

\* C23: after a run has ended in any way (completed, aborted, or stopped by
\* a missing acknowledgement) a new run can begin and proceeds normally: the
\* start request clears a previously set abort flag, so the new run is not
\* aborted by the old flag; it samples the raster of the square from its
\* first corner, wherever the earlier run left the stage, and a run that
\* completes has sampled every point and, with every move acknowledged,
\* stands at center.
C23_NewRunAfterEnd ==
    /\ [][C23_Step]_vars
    /\ [](Idle /\ open /\ runs < MaxRuns =>
             ENABLED (start_scan \/ start_scan_again))
    /\ [](InRun /\ Top.st = "end" /\ Top.how = "abort" => abort)
    /\ [](InRun =>
             /\ \A k \in DOMAIN Top.samples : Top.samples[k] = RasterPoint(k)
             /\ Top.nRead = Len(Top.samples)
             /\ (Top.st = "end" /\ Top.how = "done") =>
                   Len(Top.samples) = N * N
             /\ (Top.st = "end" /\ Top.how = "done" /\ ~Top.lost) =>
                   <<xPos, yPos>> = center)

\* C23 witness: a second run, started with the abort flag still set after an
\* earlier run that had stored samples and stopped before the last row, has
\* completed with every command acknowledged
C23_Witness ==
    /\ runs = 2
    /\ Ended("done") /\ ~Top.lost /\ ~abort
    /\ Top.stale
    /\ Top.d0[0][0] # NaN /\ Top.d0[2][2] = NaN
    /\ Len(Top.samples) = N * N
    /\ N = 3

\* C24 as claimed: a run that ends after `adc on` was acknowledged, by
\* completion, by abort, or by a move that was not acknowledged, has sent
\* `adc off` before it ends.
C24_AdcOffBeforeEnd ==
    (InRun /\ Top.st = "end" /\ Top.on /\ Top.how \in {"done", "abort", "move"})
       => Top.off

\* C25 as claimed: every grid cell a run has written (every cell that differs
\* from the grid as the run found it) lies inside the scan square
\* [center.x - extension, center.x + extension] x
\* [center.y - extension, center.y + extension], for every stepsize >= 1.
C25_WritesInSquare ==
    (InRun /\ stepsize >= 1) =>
       \A yy \in Cells : \A xx \in Cells :
          data[yy][xx] # Top.d0[yy][xx] => InSquare(yy, xx)

\* C26 as claimed: a run uses the parameters in effect when it started.  An
\* edit of center or extension processed during a heatmap refresh of the run
\* changes neither the number of columns sampled in a later row, which stays
\* floor(2*extension/stepsize) + 1 for the extension at the start, nor the
\* point the run returns to, which stays the center at the start.
C26_ParametersAtStart ==
    InRun =>
       /\ (Top.rows > 0 /\ ~Top.off) =>
             Top.cols = NumPoints(Top.e0, stepsize)
       /\ (Top.st = "end" /\ Top.how = "done" /\ ~Top.lost) =>
             <<xPos, yPos>> = Top.c0

====
